---- MODULE Spec2Model ----
(***************************************************************************)
(* Model of container_restarter.py: the Portainer API client (PortainerAPI)*)
(* and the scheduler loop (ContainerRestarter.run, main).                  *)
(*                                                                         *)
(* Strings are tuples of one-character strings, so that prefix tests,      *)
(* '/' + name and the time parse are computed rather than assumed.         *)
(* The wall clock is a number of seconds since 00:00:00 of day 0.          *)
(***************************************************************************)
EXTENDS Integers, Sequences, FiniteSets, TLC

VARIABLES
    env,                \* the environment variables read by __init__
    pc,                 \* position of the process
    clock,              \* datetime.now(), in seconds
    container_id,       \* ContainerRestarter.container_id
    last_restart_date,  \* ContainerRestarter.last_restart_date
    jwt_token,          \* PortainerAPI.jwt_token
    jwt_expiry,         \* PortainerAPI.jwt_expiry
    exit_code,          \* sys.exit status, NoCode while running
    ticks,              \* number of loop iterations begun
    issued,             \* kinds of HTTP request issued so far
    call,               \* the API call made by the step just taken
    obs,                \* the _should_restart evaluation of the current tick
    tick_error,         \* whether the current tick ran the except branch
    resolved,           \* value returned by the last successful get_container_id
    restart_log,        \* restart_container invocations: day observed, outcome
    any_failure,        \* whether some API call has failed so far
    exit_cause,         \* what ended the process
    start_clock,        \* the clock when the process was started
    lookup              \* a container list and what get_container_id made of it

vars == <<env, pc, clock, container_id, last_restart_date, jwt_token,
          jwt_expiry, exit_code, ticks, issued, call, obs, tick_error,
          resolved, restart_log, any_failure, exit_cause, start_clock, lookup>>

----------------------------------------------------------------------------
(* Values *)

None == <<"None">>          \* Python None, for string-valued fields
NoDate == -1                \* None, for last_restart_date
NoExpiry == -1              \* None, for jwt_expiry
NoCode == -1                \* the process has not exited

Truthy(s) == s # None /\ s # <<>>

SecondsPerMinute == 60
SecondsPerHour == 3600
SecondsPerDay == 86400

Date(c) == c \div SecondsPerDay
Hour(c) == (c % SecondsPerDay) \div SecondsPerHour
Minute(c) == (c % SecondsPerHour) \div SecondsPerMinute

\* timedelta(hours=7, minutes=30)
TokenLifetime == 7 * SecondsPerHour + 30 * SecondsPerMinute

AuthTimeout == 10
ListTimeout == 10
RestartTimeout == 30

----------------------------------------------------------------------------
(* Bounds *)

MaxTicks == 3               \* loop iterations explored
MaxList == 2                \* length of a returned container list

----------------------------------------------------------------------------
(* datetime.strptime(s, '%H:%M'): the regular expression that _strptime     *)
(* builds is (?P<H>2[0-3]|[0-1]\d|\d):(?P<M>[0-5]\d|\d), applied with       *)
(* re.match; text left over after the match is an error.                   *)

Digits == <<"0", "1", "2", "3", "4", "5", "6", "7", "8", "9">>
IsDigit(c) == \E i \in DOMAIN Digits : Digits[i] = c
DigitVal(c) == (CHOOSE i \in DOMAIN Digits : Digits[i] = c) - 1

\* int() of the digits s[p .. p+n-1], n in {1, 2}
FieldVal(s, p, n) ==
    IF n = 1 THEN DigitVal(s[p]) ELSE 10 * DigitVal(s[p]) + DigitVal(s[p + 1])

\* lengths matched by the alternatives of %H at the start of s, in order
HourLens(s) ==
    LET a1 == Len(s) >= 2 /\ s[1] = "2" /\ s[2] \in {"0", "1", "2", "3"}
        a2 == Len(s) >= 2 /\ s[1] \in {"0", "1"} /\ IsDigit(s[2])
        a3 == Len(s) >= 1 /\ IsDigit(s[1])
    IN  (IF a1 THEN <<2>> ELSE <<>>) \o (IF a2 THEN <<2>> ELSE <<>>)
            \o (IF a3 THEN <<1>> ELSE <<>>)

\* lengths matched by the alternatives of %M at position p of s, in order
MinuteLens(s, p) ==
    LET b1 == Len(s) >= p + 1 /\ s[p] \in {"0", "1", "2", "3", "4", "5"}
                /\ IsDigit(s[p + 1])
        b2 == Len(s) >= p /\ IsDigit(s[p])
    IN  (IF b1 THEN <<2>> ELSE <<>>) \o (IF b2 THEN <<1>> ELSE <<>>)

\* The result of strptime: ok = FALSE stands for ValueError.
Strptime(s) ==
    LET Rest(h) == Len(s) >= h + 1 /\ s[h + 1] = ":" /\ MinuteLens(s, h + 2) # <<>>
        hs == SelectSeq(HourLens(s), Rest)
    IN  IF hs = <<>>
        THEN [ok |-> FALSE, hour |-> 0, minute |-> 0]
        ELSE LET h == Head(hs)
                 m == Head(MinuteLens(s, h + 2))
             IN  IF h + 1 + m # Len(s)          \* unconverted data remains
                 THEN [ok |-> FALSE, hour |-> 0, minute |-> 0]
                 ELSE [ok |-> TRUE, hour |-> FieldVal(s, 1, h),
                       minute |-> FieldVal(s, h + 2, m)]

----------------------------------------------------------------------------
(* Configuration: os.getenv and _validate_config *)

Getenv(v, default) == IF v = None THEN default ELSE v

DefaultRestartTime == <<"0", "3", ":", "0", "0">>
DefaultCheckInterval == 60

\* int(os.getenv('CHECK_INTERVAL', '60')): ok = FALSE stands for ValueError
IntOf(e) ==
    CASE e.kind = "unset" -> [ok |-> TRUE, val |-> DefaultCheckInterval]
      [] e.kind = "int"   -> [ok |-> TRUE, val |-> e.val]
      [] OTHER            -> [ok |-> FALSE, val |-> 0]

api_key == env.credentials[1]
username == env.credentials[2]
password == env.credentials[3]
restart_time == Getenv(env.restart_time, DefaultRestartTime)
check_interval == IntOf(env.check_interval).val

ValidateConfigNoName(e) ==
    /\ Truthy(e.url)
    /\ (Truthy(e.credentials[1]) \/ (Truthy(e.credentials[2]) /\ Truthy(e.credentials[3])))
    /\ Strptime(Getenv(e.restart_time, DefaultRestartTime)).ok

ValidateConfigNoTime(e) ==
    /\ Truthy(e.url)
    /\ (Truthy(e.credentials[1]) \/ (Truthy(e.credentials[2]) /\ Truthy(e.credentials[3])))
    /\ Truthy(e.container_name)

\* TRUE when _validate_config returns without raising
ValidateConfig(e) ==
    /\ Truthy(e.url)
    /\ (Truthy(e.credentials[1]) \/ (Truthy(e.credentials[2]) /\ Truthy(e.credentials[3])))
    /\ Truthy(e.container_name)
    /\ Strptime(Getenv(e.restart_time, DefaultRestartTime)).ok

----------------------------------------------------------------------------
(* get_container_id: the search of the returned list *)

StartsWith(s, prefix) ==
    /\ Len(s) >= Len(prefix)
    /\ SubSeq(s, 1, Len(prefix)) = prefix

InList(x, list) == \E i \in DOMAIN list : list[i] = x

FindContainerNamesFirst(containers, name) ==
    LET byName == { i \in DOMAIN containers :
                      \/ InList(<<"/">> \o name, containers[i].Names)
                      \/ InList(name, containers[i].Names) }
        byId == { i \in DOMAIN containers : StartsWith(containers[i].Id, name) }
        First(S) == CHOOSE i \in S : \A j \in S : i <= j
    IN  IF byName # {} THEN [found |-> TRUE, id |-> containers[First(byName)].Id]
        ELSE IF byId # {} THEN [found |-> TRUE, id |-> containers[First(byId)].Id]
        ELSE [found |-> FALSE, id |-> None]

RECURSIVE FindContainerBareOnly(_, _)
FindContainerBareOnly(containers, name) ==
    IF containers = <<>> THEN [found |-> FALSE, id |-> None]
    ELSE LET c == Head(containers)
         IN  IF InList(name, c.Names)
             THEN [found |-> TRUE, id |-> c.Id]
             ELSE IF StartsWith(c.Id, name)
             THEN [found |-> TRUE, id |-> c.Id]
             ELSE FindContainerBareOnly(Tail(containers), name)

\* the for loop of get_container_id; found = FALSE stands for the
\* ValueError "Container ... not found"
RECURSIVE FindContainer(_, _)
FindContainer(containers, name) ==
    IF containers = <<>> THEN [found |-> FALSE, id |-> None]
    ELSE LET c == Head(containers)
         IN  IF InList(<<"/">> \o name, c.Names) \/ InList(name, c.Names)
             THEN [found |-> TRUE, id |-> c.Id]
             ELSE IF StartsWith(c.Id, name)
             THEN [found |-> TRUE, id |-> c.Id]
             ELSE FindContainer(Tail(containers), name)

----------------------------------------------------------------------------
(* What the environment and the Portainer server can supply *)

Url == <<"h">>
Key == <<"k">>
User == <<"u">>
Pass == <<"p">>
NameAB == <<"a", "b">>
Tok1 == <<"t", "1">>
Tok2 == <<"t", "2">>

TimeStrings ==
    { <<"2", "3", ":", "5", "9">>,          \* valid
      <<"0", ":", "0">>,
      <<"2", "4", ":", "0", "0">>,          \* hour out of range
      <<"1", "2", ":", "6", "0">>,          \* minute out of range
      <<"2", "3", "5", "9">>,               \* no colon
      <<"2", "3", ":", "5", "9", " ">>,     \* trailing text
      <<"1", ":", "2", "3", "4">>,
      <<"a", ":", "0", "0">>,
      <<>> }

IntervalEnvs ==
    { [kind |-> "unset", val |-> 0], [kind |-> "text", val |-> 0] }
        \cup { [kind |-> "int", val |-> v] : v \in {-1, 30, 120, 13500} }

\* PORTAINER_API_KEY, PORTAINER_USERNAME, PORTAINER_PASSWORD
Credentials ==
    { <<None, None, None>>, <<Key, None, None>>, <<Key, User, Pass>>,
      <<None, User, Pass>>, <<None, User, None>>, <<None, <<>>, Pass>> }

Envs ==
    [ url : {None, <<>>, Url},
      credentials : Credentials,
      container_name : {None, <<>>, NameAB},
      restart_time : {None} \cup TimeStrings,
      check_interval : IntervalEnvs ]

\* the process is started at 23:58:30 of day 0
StartClocks == { 23 * SecondsPerHour + 58 * SecondsPerMinute + 30 }

Containers ==
    { [Id |-> <<"x", "1">>, Names |-> << <<"/", "a", "b">> >>],
      [Id |-> <<"x", "2">>, Names |-> << <<"a", "b">> >>],
      [Id |-> <<"a", "b", "z">>, Names |-> << <<"/", "o">> >>],
      [Id |-> <<"x", "4">>, Names |-> << <<"/", "a", "b", "c">> >>] }

ContainerLists == UNION { [1..n -> Containers] : n \in 0..MaxList }

\* the GET .../containers/json response: ok = FALSE is a transport or
\* HTTP error
ListResponses ==
    { [ok |-> FALSE, containers |-> <<>>], [ok |-> TRUE, containers |-> <<>>] }
        \cup { [ok |-> TRUE, containers |-> <<c>>] : c \in Containers }

\* the POST /api/auth response: ok = FALSE is a transport or HTTP error or
\* a body without 'jwt'; jwt = None is a JSON null
AuthResponses ==
    { [ok |-> FALSE, jwt |-> None], [ok |-> TRUE, jwt |-> None],
      [ok |-> TRUE, jwt |-> Tok1], [ok |-> TRUE, jwt |-> Tok2] }

AuthDelays == {0, AuthTimeout}
ListDelays == {0, ListTimeout}
RestartDelays == {0, RestartTimeout}

----------------------------------------------------------------------------
(* PortainerAPI *)

NeedsAuthStrict(token, expiry, now) == ~Truthy(token) \/ now > expiry

\* line 38: not self.jwt_token or datetime.now() >= self.jwt_expiry
NeedsAuth(token, expiry, now) == ~Truthy(token) \/ now >= expiry

\* _authenticate, entered at time now with server response a after da
\* seconds.  err = TRUE: the call raised.
Authenticate(now, a, da) ==
    IF ~Truthy(username) \/ ~Truthy(password)
    THEN [err |-> TRUE, sent |-> FALSE, token |-> jwt_token,
          expiry |-> jwt_expiry, now |-> now]
    ELSE IF ~a.ok
    THEN [err |-> TRUE, sent |-> TRUE, token |-> jwt_token,
          expiry |-> jwt_expiry, now |-> now + da]
    ELSE [err |-> FALSE, sent |-> TRUE, token |-> a.jwt,
          expiry |-> (now + da) + TokenLifetime, now |-> now + da]

GetHeadersJwtFirst(now, a, da) ==
    IF Truthy(username) /\ Truthy(password)
    THEN LET n == NeedsAuth(jwt_token, jwt_expiry, now)
             r == IF n THEN Authenticate(now, a, da)
                  ELSE [err |-> FALSE, sent |-> FALSE, token |-> jwt_token,
                        expiry |-> jwt_expiry, now |-> now]
         IN  [err |-> r.err, hdr |-> <<"Authorization", <<"Bearer">> \o r.token>>,
              auth_called |-> n, auth_sent |-> r.sent, token |-> r.token,
              expiry |-> r.expiry, now |-> r.now]
    ELSE [err |-> FALSE, hdr |-> <<"X-API-Key", api_key>>,
          auth_called |-> FALSE, auth_sent |-> FALSE, token |-> jwt_token,
          expiry |-> jwt_expiry, now |-> now]

\* _get_headers at time now
GetHeaders(now, a, da) ==
    IF Truthy(api_key)
    THEN [err |-> FALSE, hdr |-> <<"X-API-Key", api_key>>,
          auth_called |-> FALSE, auth_sent |-> FALSE, token |-> jwt_token,
          expiry |-> jwt_expiry, now |-> now]
    ELSE IF Truthy(jwt_token) /\ jwt_expiry = NoExpiry
    THEN \* comparing datetime with None raises TypeError
         [err |-> TRUE, hdr |-> <<"none", None>>,
          auth_called |-> FALSE, auth_sent |-> FALSE, token |-> jwt_token,
          expiry |-> jwt_expiry, now |-> now]
    ELSE LET n == NeedsAuth(jwt_token, jwt_expiry, now)
             r == IF n THEN Authenticate(now, a, da)
                  ELSE [err |-> FALSE, sent |-> FALSE, token |-> jwt_token,
                        expiry |-> jwt_expiry, now |-> now]
         IN  [err |-> r.err, hdr |-> <<"Authorization", <<"Bearer">> \o r.token>>,
              auth_called |-> n, auth_sent |-> r.sent, token |-> r.token,
              expiry |-> r.expiry, now |-> r.now]

NoCall ==
    [kind |-> "none", err |-> FALSE, sent |-> FALSE, hdr |-> <<"none", None>>,
     auth_called |-> FALSE, auth_sent |-> FALSE, token_before |-> None,
     expiry_before |-> NoExpiry, at |-> 0, token |-> None, expiry |-> NoExpiry,
     now |-> 0, id |-> None]

\* get_container_id(endpoint_id, name) entered at the current clock
GetContainerId(name, a, da, l, dl) ==
    LET h == GetHeaders(clock, a, da)
        f == FindContainer(l.containers, name)
        ok == ~h.err /\ l.ok /\ f.found
    IN  [kind |-> "list", err |-> ~ok, sent |-> ~h.err, hdr |-> h.hdr,
         auth_called |-> h.auth_called, auth_sent |-> h.auth_sent,
         token_before |-> jwt_token, expiry_before |-> jwt_expiry,
         at |-> clock, token |-> h.token, expiry |-> h.expiry,
         now |-> IF h.err THEN h.now ELSE h.now + dl,
         id |-> IF ok THEN f.id ELSE None]

\* restart_container(endpoint_id, id) entered at the current clock
RestartContainer(id, a, da, posted, dr) ==
    LET h == GetHeaders(clock, a, da)
        ok == ~h.err /\ posted
    IN  [kind |-> "restart", err |-> ~ok, sent |-> ~h.err, hdr |-> h.hdr,
         auth_called |-> h.auth_called, auth_sent |-> h.auth_sent,
         token_before |-> jwt_token, expiry_before |-> jwt_expiry,
         at |-> clock, token |-> h.token, expiry |-> h.expiry,
         now |-> IF h.err THEN h.now ELSE h.now + dr,
         id |-> id]

NoLookup == [containers |-> <<>>, name |-> None, found |-> FALSE, id |-> None]

\* the kinds of HTTP request a call issued
Issued(c) ==
    (IF c.auth_sent THEN {"auth"} ELSE {}) \cup (IF c.sent THEN {c.kind} ELSE {})

----------------------------------------------------------------------------
(* ContainerRestarter *)

NoObs == [date |-> NoDate, time_match |-> FALSE, result |-> FALSE]

ShouldRestartNoGuard(now, last) ==
    LET target == Strptime(restart_time)
    IN  Hour(now) = target.hour /\ Minute(now) = target.minute

\* _should_restart with datetime.now() = now
ShouldRestart(now, last) ==
    LET target == Strptime(restart_time)
        time_match == Hour(now) = target.hour /\ Minute(now) = target.minute
        not_restarted_today == last # Date(now)
    IN  time_match /\ not_restarted_today

Exit(code, cause) ==
    /\ pc' = "exited"
    /\ exit_code' = code
    /\ exit_cause' = cause

Record(c) ==
    /\ call' = c
    /\ clock' = c.now
    /\ jwt_token' = c.token
    /\ jwt_expiry' = c.expiry
    /\ issued' = issued \cup Issued(c)
    /\ any_failure' = (any_failure \/ c.err)

\* main, lines 218-219 and 224-226: ContainerRestarter() with its
\* _validate_config; an exception ends the process with status 1
Construct ==
    /\ pc = "main"
    /\ IF ~IntOf(env.check_interval).ok \/ ~ValidateConfig(env)
       THEN Exit(1, "config")
       ELSE /\ pc' = "run"
            /\ UNCHANGED <<exit_code, exit_cause>>
    /\ UNCHANGED <<env, clock, container_id, last_restart_date, jwt_token,
                   jwt_expiry, ticks, issued, call, obs, tick_error, resolved,
                   restart_log, any_failure, start_clock, lookup>>

StartupLookupFatal ==
    /\ pc = "run"
    /\ \E a \in AuthResponses, da \in AuthDelays,
          l \in ListResponses, dl \in ListDelays :
          LET c == GetContainerId(env.container_name, a, da, l, dl)
          IN  /\ Record(c)
              /\ container_id' = IF c.err THEN container_id ELSE c.id
              /\ resolved' = IF c.err THEN resolved ELSE c.id
              /\ IF c.err
                 THEN Exit(1, "lookup")
                 ELSE pc' = "loop" /\ UNCHANGED <<exit_code, exit_cause>>
    /\ UNCHANGED <<env, last_restart_date, ticks, obs, tick_error,
                   restart_log, start_clock, lookup>>

\* run, lines 178-187: the lookup at startup, whose failure is logged only
StartupLookup ==
    /\ pc = "run"
    /\ \E a \in AuthResponses, da \in AuthDelays,
          l \in ListResponses, dl \in ListDelays :
          LET c == GetContainerId(env.container_name, a, da, l, dl)
          IN  /\ Record(c)
              /\ container_id' = IF c.err THEN container_id ELSE c.id
              /\ resolved' = IF c.err THEN resolved ELSE c.id
    /\ pc' = "loop"
    /\ UNCHANGED <<env, last_restart_date, exit_code, ticks, obs, tick_error,
                   restart_log, exit_cause, start_clock, lookup>>

TickResolveNoStore ==
    /\ pc = "loop"
    /\ ticks < MaxTicks
    /\ ticks' = ticks + 1
    /\ IF ~Truthy(container_id)
       THEN \E a \in AuthResponses, da \in AuthDelays,
               l \in ListResponses, dl \in ListDelays :
               LET c == GetContainerId(env.container_name, a, da, l, dl)
               IN  /\ Record(c)
                   /\ container_id' = None
                   /\ resolved' = IF c.err THEN resolved ELSE c.id
                   /\ tick_error' = c.err
                   /\ pc' = IF c.err THEN "sleep" ELSE "check"
       ELSE /\ pc' = "check"
            /\ call' = NoCall
            /\ UNCHANGED <<clock, jwt_token, jwt_expiry, issued, any_failure,
                           container_id, resolved, tick_error>>
    /\ UNCHANGED <<env, last_restart_date, exit_code, obs, restart_log,
                   exit_cause, start_clock, lookup>>

TickResolveNoLookup ==
    /\ pc = "loop"
    /\ ticks < MaxTicks
    /\ ticks' = ticks + 1
    /\ pc' = "check"
    /\ call' = NoCall
    /\ UNCHANGED <<clock, jwt_token, jwt_expiry, issued, any_failure,
                   container_id, resolved, tick_error>>
    /\ UNCHANGED <<env, last_restart_date, exit_code, obs, restart_log,
                   exit_cause, start_clock, lookup>>

\* run, lines 190-197 and 208-211: the start of a loop iteration
TickResolve ==
    /\ pc = "loop"
    /\ ticks < MaxTicks
    /\ ticks' = ticks + 1
    /\ IF ~Truthy(container_id)
       THEN \E a \in AuthResponses, da \in AuthDelays,
               l \in ListResponses, dl \in ListDelays :
               LET c == GetContainerId(env.container_name, a, da, l, dl)
               IN  /\ Record(c)
                   /\ container_id' = IF c.err THEN None ELSE c.id
                   /\ resolved' = IF c.err THEN resolved ELSE c.id
                   /\ tick_error' = c.err
                   /\ pc' = IF c.err THEN "sleep" ELSE "check"
       ELSE /\ pc' = "check"
            /\ call' = NoCall
            /\ UNCHANGED <<clock, jwt_token, jwt_expiry, issued, any_failure,
                           container_id, resolved, tick_error>>
    /\ UNCHANGED <<env, last_restart_date, exit_code, obs, restart_log,
                   exit_cause, start_clock, lookup>>

\* run, line 199: the decision of this iteration
TickCheck ==
    /\ pc = "check"
    /\ LET r == ShouldRestart(clock, last_restart_date)
           t == Strptime(restart_time)
       IN  /\ obs' = [date |-> Date(clock),
                      time_match |-> (Hour(clock) = t.hour /\ Minute(clock) = t.minute),
                      result |-> r]
           /\ pc' = IF r THEN "restart" ELSE "sleep"
    /\ call' = NoCall
    /\ UNCHANGED <<env, clock, container_id, last_restart_date, jwt_token,
                   jwt_expiry, exit_code, ticks, issued, tick_error, resolved,
                   restart_log, any_failure, exit_cause, start_clock, lookup>>

TickRestartRecordAlways ==
    /\ pc = "restart"
    /\ \E a \in AuthResponses, da \in AuthDelays,
          posted \in BOOLEAN, dr \in RestartDelays :
          LET c == RestartContainer(container_id, a, da, posted, dr)
          IN  /\ Record(c)
              /\ restart_log' = Append(restart_log,
                                       [date |-> obs.date, ok |-> ~c.err])
              /\ last_restart_date' = Date(c.now)
              /\ container_id' = IF c.err THEN None ELSE container_id
              /\ tick_error' = c.err
    /\ pc' = "sleep"
    /\ UNCHANGED <<env, exit_code, ticks, obs, resolved, exit_cause,
                   start_clock, lookup>>

TickRestartKeepId ==
    /\ pc = "restart"
    /\ \E a \in AuthResponses, da \in AuthDelays,
          posted \in BOOLEAN, dr \in RestartDelays :
          LET c == RestartContainer(container_id, a, da, posted, dr)
          IN  /\ Record(c)
              /\ restart_log' = Append(restart_log,
                                       [date |-> obs.date, ok |-> ~c.err])
              /\ last_restart_date' =
                     IF c.err THEN last_restart_date ELSE Date(c.now)
              /\ container_id' = container_id
              /\ tick_error' = c.err
    /\ pc' = "sleep"
    /\ UNCHANGED <<env, exit_code, ticks, obs, resolved, exit_cause,
                   start_clock, lookup>>

\* run, lines 200-203 and 208-211: the restart and the date it records
TickRestart ==
    /\ pc = "restart"
    /\ \E a \in AuthResponses, da \in AuthDelays,
          posted \in BOOLEAN, dr \in RestartDelays :
          LET c == RestartContainer(container_id, a, da, posted, dr)
          IN  /\ Record(c)
              /\ restart_log' = Append(restart_log,
                                       [date |-> obs.date, ok |-> ~c.err])
              /\ last_restart_date' =
                     IF c.err THEN last_restart_date ELSE Date(c.now)
              /\ container_id' = IF c.err THEN None ELSE container_id
              /\ tick_error' = c.err
    /\ pc' = "sleep"
    /\ UNCHANGED <<env, exit_code, ticks, obs, resolved, exit_cause,
                   start_clock, lookup>>

\* run, line 213: time.sleep(check_interval), which raises ValueError for
\* a negative length; main then ends the process with status 1
Sleep ==
    /\ pc = "sleep"
    /\ IF check_interval < 0
       THEN /\ Exit(1, "sleep")
            /\ UNCHANGED <<clock, call, obs, tick_error>>
       ELSE /\ clock' = clock + check_interval
            /\ pc' = "loop"
            /\ call' = NoCall
            /\ obs' = NoObs
            /\ tick_error' = FALSE
            /\ UNCHANGED <<exit_code, exit_cause>>
    /\ UNCHANGED <<env, container_id, last_restart_date, jwt_token,
                   jwt_expiry, ticks, issued, resolved, restart_log,
                   any_failure, start_clock, lookup>>

\* main, lines 221-223: KeyboardInterrupt, at startup or anywhere in run
Interrupt ==
    /\ pc # "exited"
    /\ Exit(0, "interrupt")
    /\ UNCHANGED <<env, clock, container_id, last_restart_date, jwt_token,
                   jwt_expiry, ticks, issued, call, obs, tick_error, resolved,
                   restart_log, any_failure, start_clock, lookup>>

Init ==
    /\ env \in Envs
    /\ clock \in StartClocks
    /\ start_clock = clock
    /\ pc = "main"
    /\ container_id = None
    /\ last_restart_date = NoDate
    /\ jwt_token = None
    /\ jwt_expiry = NoExpiry
    /\ exit_code = NoCode
    /\ exit_cause = "none"
    /\ ticks = 0
    /\ issued = {}
    /\ call = NoCall
    /\ obs = NoObs
    /\ tick_error = FALSE
    /\ resolved = None
    /\ restart_log = <<>>
    /\ any_failure = FALSE
    /\ lookup = NoLookup

Next ==
    \/ Construct
    \/ StartupLookup
    \/ TickResolve
    \/ TickCheck
    \/ TickRestart
    \/ Sleep
    \/ Interrupt

Spec == Init /\ [][Next]_vars

----------------------------------------------------------------------------
(* get_container_id on its own: the search applied to every list of at     *)
(* most MaxList containers, for several configured names                   *)

LookupNames ==
    { NameAB, <<"x">>, <<"a">>, <<"o">>, <<"a", "b", "z">>, <<"x", "1">> }

InitLookup ==
    /\ env \in { [url |-> Url, credentials |-> <<Key, None, None>>,
                  container_name |-> n, restart_time |-> None,
                  check_interval |-> [kind |-> "unset", val |-> 0]]
                 : n \in LookupNames }
    /\ clock \in StartClocks
    /\ start_clock = clock
    /\ pc = "lookup"
    /\ container_id = None
    /\ last_restart_date = NoDate
    /\ jwt_token = None
    /\ jwt_expiry = NoExpiry
    /\ exit_code = NoCode
    /\ exit_cause = "none"
    /\ ticks = 0
    /\ issued = {}
    /\ call = NoCall
    /\ obs = NoObs
    /\ tick_error = FALSE
    /\ resolved = None
    /\ restart_log = <<>>
    /\ any_failure = FALSE
    /\ lookup = NoLookup

\* get_container_id, lines 74-85, on the decoded response
Lookup ==
    /\ pc = "lookup"
    /\ \E l \in ContainerLists :
          LET f == FindContainer(l, env.container_name)
          IN  lookup' = [containers |-> l, name |-> env.container_name,
                         found |-> f.found, id |-> f.id]
    /\ UNCHANGED <<env, pc, clock, container_id, last_restart_date, jwt_token,
                   jwt_expiry, exit_code, ticks, issued, call, obs, tick_error,
                   resolved, restart_log, any_failure, exit_cause, start_clock>>

NextLookup == Lookup

SpecLookup == InitLookup /\ [][NextLookup]_vars

----------------------------------------------------------------------------
(* Properties *)

Running == pc \in {"run", "loop", "check", "restart", "sleep"}

\* the invocations of restart_container made for a tick of day d
CallsOn(d) == { i \in DOMAIN restart_log : restart_log[i].date = d }

MinuteStart(d) ==
    LET t == Strptime(restart_time)
    IN  d * SecondsPerDay + t.hour * SecondsPerHour + t.minute * SecondsPerMinute

\* C2: on every day through whose target minute the process has run with
\* every API call succeeding, restart_container was invoked in that minute.
C2_RestartEveryDay ==
    \A d \in 0..1 :
        ( /\ Running
          /\ ~any_failure
          /\ start_clock <= MinuteStart(d)
          /\ clock >= MinuteStart(d) + SecondsPerMinute )
        => CallsOn(d) # {}

\* C3: once the loop has been entered only an interrupt ends the process.
C3_LoopLeftOnlyByInterrupt ==
    (pc = "exited" /\ ticks >= 1) => exit_cause = "interrupt"

\* C4: at the end of a tick in which the lookup or the restart raised the
\* cached container_id is None, and at the end of a tick without error it
\* is the identifier the last successful lookup returned.
C4_EndOfTick ==
    pc = "sleep" =>
        /\ tick_error => container_id = None
        /\ ~tick_error => (container_id = resolved /\ container_id # None)

\* a tick whose restart call failed after the identifier had been resolved
C4_Witness ==
    /\ pc = "sleep"
    /\ tick_error
    /\ call.kind = "restart"
    /\ resolved # None
    /\ container_id = None

\* C5: with an API key configured every request carries X-API-Key, the
\* auth endpoint is never called and token and expiry stay unset.
C5_StaticKeyPrecedence ==
    Truthy(api_key) =>
        /\ "auth" \notin issued
        /\ jwt_token = None
        /\ jwt_expiry = NoExpiry
        /\ call.kind # "none" =>
              (call.sent /\ ~call.auth_called /\ call.hdr = <<"X-API-Key", api_key>>)

\* key, username and password all configured, and a restart request sent
C5_Witness ==
    /\ Truthy(api_key)
    /\ Truthy(username)
    /\ Truthy(password)
    /\ call.kind = "restart"
    /\ call.sent
    /\ "list" \in issued

\* C6: without an API key, a request calls _authenticate exactly when no
\* token is cached or the time is at or past the cached expiry; otherwise
\* token and expiry are reused untouched; the request sent carries the
\* bearer header of the token cached at that moment.
C6_LazyAuthentication ==
    (~Truthy(api_key) /\ call.kind # "none") =>
        /\ call.auth_called <=>
              (~Truthy(call.token_before) \/ call.at >= call.expiry_before)
        /\ ~call.auth_called =>
              /\ ~call.auth_sent
              /\ jwt_token = call.token_before
              /\ jwt_expiry = call.expiry_before
        /\ call.sent => call.hdr = <<"Authorization", <<"Bearer">> \o jwt_token>>

\* a request made at the very second a cached token expires
C6_Witness ==
    /\ ~Truthy(api_key)
    /\ call.kind = "list"
    /\ Truthy(call.token_before)
    /\ call.at = call.expiry_before
    /\ call.auth_called
    /\ call.sent

HasPrefix(s, prefix) ==
    /\ Len(prefix) <= Len(s)
    /\ \A i \in 1..Len(prefix) : s[i] = prefix[i]

\* the three ways a container matches a name
Matches(c, name) ==
    \/ \E i \in DOMAIN c.Names : c.Names[i] = name
    \/ \E i \in DOMAIN c.Names : c.Names[i] = <<"/">> \o name
    \/ HasPrefix(c.Id, name)

\* C7: get_container_id returns the Id of a container of the list that
\* matches by name, by '/' + name or by Id prefix, and fails with the
\* not-found error exactly when no container of the list matches.
C7_LookupMatches ==
    lookup # NoLookup =>
        /\ lookup.found <=>
              \E i \in DOMAIN lookup.containers :
                  Matches(lookup.containers[i], lookup.name)
        /\ lookup.found =>
              \E i \in DOMAIN lookup.containers :
                  /\ lookup.containers[i].Id = lookup.id
                  /\ Matches(lookup.containers[i], lookup.name)

\* a list whose first container does not match and whose second matches
\* by its leading-slash name only
C7_Witness ==
    /\ Len(lookup.containers) = 2
    /\ ~Matches(lookup.containers[1], lookup.name)
    /\ lookup.found
    /\ lookup.id = lookup.containers[2].Id
    /\ ~HasPrefix(lookup.id, lookup.name)
    /\ \A i \in DOMAIN lookup.containers[2].Names :
          lookup.containers[2].Names[i] # lookup.name

MissingRequired(e) ==
    \/ e.url \in {None, <<>>}
    \/ e.container_name \in {None, <<>>}
    \/ /\ e.credentials[1] \in {None, <<>>}
       /\ (e.credentials[2] \in {None, <<>>} \/ e.credentials[3] \in {None, <<>>})

\* C8: with the URL, the container name or the credentials missing,
\* construction raises and no request is ever issued.
C8_MissingConfigFails ==
    MissingRequired(env) =>
        /\ pc \in {"main", "exited"}
        /\ issued = {}
        /\ ticks = 0
        /\ exit_cause \in {"none", "config", "interrupt"}
        /\ exit_cause = "config" => exit_code = 1

\* only the container name is missing, and construction has raised
C8_Witness ==
    /\ env.container_name \in {None, <<>>}
    /\ Truthy(env.url)
    /\ Truthy(api_key)
    /\ Strptime(restart_time).ok
    /\ pc = "exited"
    /\ exit_cause = "config"
    /\ exit_code = 1

\* decimal texts of n that have at most two digits
Texts(n) ==
    { <<Digits[(n \div 10) + 1], Digits[(n % 10) + 1]>> }
        \cup (IF n < 10 THEN { <<Digits[n + 1]>> } ELSE {})

\* s is the text of hour h and minute m
IsTimeText(s, h, m) ==
    \E hh \in Texts(h) :
        /\ HasPrefix(s, hh \o <<":">>)
        /\ \E mm \in Texts(m) : s = hh \o <<":">> \o mm

\* the times of the 24-hour clock that each configurable text names
NamedTimes ==
    [ s \in TimeStrings \cup {DefaultRestartTime} |->
        { hm \in (0..23) \X (0..59) : IsTimeText(s, hm[1], hm[2]) } ]

\* s names a time of the 24-hour clock
ValidTime(s) == NamedTimes[s] # {}

\* C9: a RESTART_TIME that is no 24-hour time is rejected before the loop
\* starts, so run and _should_restart see a restart time that parses to
\* the hour in 0..23 and the minute in 0..59 that it names.
C9_InvalidTimeRejected ==
    /\ ~ValidTime(restart_time) =>
          /\ pc \in {"main", "exited"}
          /\ ticks = 0
          /\ issued = {}
          /\ exit_cause \in {"none", "config", "interrupt"}
    /\ Running =>
          \E hm \in NamedTimes[restart_time] :
              Strptime(restart_time) = [ok |-> TRUE, hour |-> hm[1], minute |-> hm[2]]

\* everything but the restart time is valid, and construction has raised
C9_Witness ==
    /\ ValidateConfigNoTime(env)
    /\ IntOf(env.check_interval).ok
    /\ ~ValidTime(restart_time)
    /\ pc = "exited"
    /\ exit_cause = "config"
    /\ exit_code = 1

\* C10: the process ends with status 1 only by failing at startup, before
\* any request and any tick, and with status 0 only by an interrupt.
C10_ExitOutcomes ==
    pc = "exited" =>
        /\ exit_code \in {0, 1}
        /\ exit_code = 1 => (exit_cause = "config" /\ ticks = 0 /\ issued = {})
        /\ exit_code = 0 => exit_cause = "interrupt"

\* C11: after a successful restart last_restart_date is the calendar date
\* of the tick whose time match triggered it, also when the call returns
\* on a later date.
C11_RecordsDateOfTick ==
    (pc = "sleep" /\ call.kind = "restart" /\ ~call.err)
        => last_restart_date = obs.date

\* C12: last_restart_date changes only in a step whose restart call
\* returned successfully; and when every restart attempt made for a day has
\* failed, a later tick in the target minute of that day attempts it again.
C12_DateOnlyOnSuccess ==
    /\ [][ last_restart_date' # last_restart_date
              => (call'.kind = "restart" /\ ~call'.err) ]_vars
    /\ []( ( /\ pc \in {"restart", "sleep"}
             /\ obs.time_match
             /\ CallsOn(obs.date) # {}
             /\ \A i \in CallsOn(obs.date) : ~restart_log[i].ok )
           => obs.result )

\* a tick of the target minute attempting the restart again after the
\* attempt of an earlier tick of the same minute failed
C12_Witness ==
    /\ pc = "restart"
    /\ last_restart_date = NoDate
    /\ \E i \in CallsOn(obs.date) : ~restart_log[i].ok

\* C13: restart_container is only called with the identifier that a
\* successful get_container_id returned, never None; a failed tick leaves
\* no identifier, and an identifier only comes from a successful lookup.
C13_RestartOnlyWhenReady ==
    /\ [](call.kind = "restart" => (call.id # None /\ call.id = resolved))
    /\ [](pc = "restart" => (container_id # None /\ container_id = resolved))
    /\ []((pc = "sleep" /\ tick_error) => container_id = None)
    /\ [][ (container_id = None /\ container_id' # None)
              => (call'.kind = "list" /\ ~call'.err /\ container_id' = call'.id) ]_vars

\* a second restart attempt, made after the tick of the first one failed
C13_Witness ==
    /\ pc = "sleep"
    /\ call.kind = "restart"
    /\ Len(restart_log) = 2
    /\ ~restart_log[1].ok

\* C14: a failed lookup at startup is not fatal: the loop is entered with
\* container_id None, and every tick that starts without an identifier
\* makes the lookup again.
C14_StartupLookupNotFatal ==
    /\ []((pc = "loop" /\ ticks = 0 /\ any_failure)
            => (container_id = None /\ exit_code = NoCode))
    /\ [][ pc = "run"
              => (pc' \in {"loop", "exited"}
                  /\ (pc' = "exited" => exit_cause' = "interrupt")) ]_vars
    /\ [][ (pc = "loop" /\ container_id = None /\ pc' \notin {"loop", "exited"})
              => (call'.kind = "list"
                  /\ (call'.err \/ container_id' = call'.id)) ]_vars

\* the lookup failed at startup and in the first tick and succeeds in the
\* second tick
C14_Witness ==
    /\ pc = "check"
    /\ ticks = 2
    /\ restart_log = <<>>
    /\ call.kind = "list"
    /\ ~call.err
    /\ container_id # None

\* C15: a step of the scheduler whose API calls all succeed ends in the
\* ready state, whatever happened before, a tick past its resolve step is
\* ready, and the ready state is left only by a step in which a call failed.
C15_Recovery ==
    /\ [][ (pc \in {"run", "loop", "restart"} /\ pc' # "exited"
              /\ call'.kind # "none" /\ ~call'.err)
              => container_id' # None ]_vars
    /\ [][ (pc = "loop" /\ pc' = "check") => (container_id' # None /\ ~tick_error') ]_vars
    /\ [][ (container_id # None /\ container_id' = None)
              => (call'.kind # "none" /\ call'.err) ]_vars

\* the tick after a failed restart resolves the identifier again
C15_Witness ==
    /\ pc = "check"
    /\ call.kind = "list"
    /\ ~call.err
    /\ container_id # None
    /\ restart_log # <<>>
    /\ ~restart_log[Len(restart_log)].ok

\* C16: token and expiry are both unset or both set, and a request whose
\* _authenticate call failed leaves the cached token and expiry as they
\* were.
C16_TokenExpiryConsistent ==
    /\ (jwt_token = None) <=> (jwt_expiry = NoExpiry)
    /\ (call.auth_called /\ ~call.sent)
          => (jwt_token = call.token_before /\ jwt_expiry = call.expiry_before)

\* C17: get_container_id returns the Id of the first container of the
\* list, in list order, that matches by name, by '/' + name or by Id
\* prefix.
C17_FirstMatchWins ==
    lookup.found =>
        \E i \in DOMAIN lookup.containers :
            /\ Matches(lookup.containers[i], lookup.name)
            /\ \A j \in 1..(i - 1) : ~Matches(lookup.containers[j], lookup.name)
            /\ lookup.id = lookup.containers[i].Id

\* the first container matches by Id prefix only, the second has exactly
\* the configured name, and the first one's Id is returned
C17_Witness ==
    /\ Len(lookup.containers) = 2
    /\ HasPrefix(lookup.containers[1].Id, lookup.name)
    /\ \A i \in DOMAIN lookup.containers[1].Names :
          lookup.containers[1].Names[i] \notin {lookup.name, <<"/">> \o lookup.name}
    /\ \E i \in DOMAIN lookup.containers[2].Names :
          lookup.containers[2].Names[i] = lookup.name
    /\ lookup.containers[1].Id # lookup.containers[2].Id
    /\ lookup.found
    /\ lookup.id = lookup.containers[1].Id

====
